---- MODULE Spec2Model ----
(***************************************************************************)
(* Model of 0x00-personal_data/filtered_logger.py: the field matcher       *)
(* filter_datum, the RedactingFormatter, get_logger, format_row and the    *)
(* emission loop main.                                                     *)
(*                                                                         *)
(* A Python str is modelled as a sequence of one-character strings, so     *)
(* that pattern matching, joining and str() conversion are computed and    *)
(* not assumed.                                                            *)
(***************************************************************************)
EXTENDS Integers, Sequences, FiniteSets, TLC

(***************************************************************************)
(* Bounds of the model.                                                    *)
(***************************************************************************)
\* longest message enumerated for the field matcher
MaxLen == 5
\* largest number of columns of a row
MaxCols == 2
\* longest field list the caller of RedactingFormatter builds
MaxFields == 2
\* largest number of get_logger() calls in a run
MaxCalls == 2
\* largest number of rows of the users table
MaxRows == 2

(***************************************************************************)
(* Program constants.                                                      *)
(***************************************************************************)
\* RedactingFormatter.REDACTION = "***"
REDACTION == <<"*", "*", "*">>
\* RedactingFormatter.SEPARATOR = ";"
SEPARATOR == <<";">>

VARIABLES
    \* ---- field matcher called on its own ----
    fields,      \* argument `fields` of filter_datum
    redaction,   \* argument `redaction`
    message,     \* argument `message`
    separator,   \* argument `separator`
    result,      \* filter_datum(fields, redaction, message, separator)
    result2,     \* filter_datum(fields, redaction, result, separator)
    fpc,         \* "start", "once", "twice"
    \* ---- row serializer followed by redaction ----
    headers,     \* column names, from cursor.description
    row,         \* one database row: a tuple of values
    sensitive,   \* the formatter's field list: a sublist of headers
    rowMsg,      \* the serialized row
    rowOut,      \* the serialized row after redaction
    rvia,        \* "direct": format_row(row, headers); "main": as main calls it
    rpc,         \* "start", "serialized", "redacted"
    \* ---- one RedactingFormatter used by two threads ----
    heap,        \* the list objects: reference -> contents
    selfFields,  \* self.fields: a reference to a list object
    ctorFields,  \* contents of the list when __init__ ran
    recs,        \* the LogRecord of each thread: msg, name, levelname
    orig,        \* the msg each record was created with
    argMsg,      \* per call: record.msg as evaluated for the call
    usedFields,  \* per call: the contents of self.fields read by the call
    ret,         \* per call: the value filter_datum returned
    out,         \* per call: the text format returned
    pc,          \* per call: position inside format
    \* ---- get_logger and the emission loop main ----
    level,       \* level of the logger "user_data"
    propagate,   \* its propagate flag
    handlers,    \* its handlers: the field list of each handler's formatter
    calls,       \* number of get_logger() calls so far
    mpc,         \* position inside main
    dbOpen,      \* the connection returned by get_db() is open
    cursorOpen,  \* the cursor returned by db.cursor() is open
    opened,      \* connection and cursor have both been opened
    description, \* cursor.description: the column names, or None
    table,       \* the rows of the users table
    mheaders,    \* local `headers` of main
    rows,        \* local `rows` of main
    idx,         \* number of rows the loop has been through
    handled,     \* number of records passed to logger.handle
    stream       \* the lines written to the stream, in order

filterVars == <<fields, redaction, message, separator, result, result2, fpc>>
rowVars == <<headers, row, sensitive, rowMsg, rowOut, rvia, rpc>>
fmtVars == <<heap, selfFields, ctorFields, recs, orig, argMsg, usedFields,
             ret, out, pc>>
mainVars == <<level, propagate, handlers, calls, mpc, dbOpen, cursorOpen,
              opened, description, table, mheaders, rows, idx, handled, stream>>
vars == <<filterVars, rowVars, fmtVars, mainVars>>

(***************************************************************************)
(* Generic string helpers.                                                 *)
(***************************************************************************)
\* the set of characters of a string
Chars(s) == {s[k] : k \in 1..Len(s)}

\* all strings over alphabet A of length at most n
StringsUpTo(A, n) == UNION {[1..k -> A] : k \in 0..n}

\* w occurs in s starting at position i
OccursAt(s, i, w) ==
    /\ i + Len(w) - 1 <= Len(s)
    /\ \A k \in 1..Len(w) : s[i + k - 1] = w[k]

\* x is an element of the list lst
InList(x, lst) == \E k \in 1..Len(lst) : lst[k] = x

(***************************************************************************)
(* filter_datum: re.sub of "(f1|f2|...)=([^<separator>]+)".                *)
(***************************************************************************)
\* '|'.join(fields) inside the group: the alternatives of group 1, in
\* order.  Joining an empty list gives the empty string, i.e. one empty
\* alternative.
Alternatives(flds) == IF flds = <<>> THEN << <<>> >> ELSE flds

\* variant: [^separator] without the +, a value of exactly one character
ValueEndOneChar(msg, sep, j) == j

\* [^separator]+ starting at position j: the last position of the greedy
\* run of characters outside the class (j is known to be outside it).

RECURSIVE ValueEnd(_, _, _)
ValueEnd(msg, sep, j) ==
    IF j + 1 <= Len(msg) /\ msg[j + 1] \notin Chars(sep)
    THEN ValueEnd(msg, sep, j + 1)
    ELSE j

\* the whole pattern matches at position i through alternative a
PatternMatchesAt(alts, msg, sep, i, a) ==
    LET e == i + Len(alts[a]) IN
    /\ OccursAt(msg, i, alts[a])
    /\ e + 1 <= Len(msg)
    /\ msg[e] = "="
    /\ msg[e + 1] \notin Chars(sep)

\* re.sub scanning from position i: leftmost match, first alternative that
\* succeeds, replaced by group(1) "=" redaction; non-overlapping.
RECURSIVE Sub(_, _, _, _, _)
Sub(alts, red, msg, sep, i) ==
    IF i > Len(msg) THEN <<>>
    ELSE LET ok == {a \in 1..Len(alts) : PatternMatchesAt(alts, msg, sep, i, a)}
         IN  IF ok = {} THEN <<msg[i]>> \o Sub(alts, red, msg, sep, i + 1)
             ELSE LET a == CHOOSE x \in ok : \A y \in ok : x <= y
                      e == ValueEnd(msg, sep, i + Len(alts[a]) + 1)
                  IN  alts[a] \o <<"=">> \o red \o Sub(alts, red, msg, sep, e + 1)

filter_datum(flds, red, msg, sep) == Sub(Alternatives(flds), red, msg, sep, 1)

(***************************************************************************)
(* Inputs of the field matcher.                                            *)
(***************************************************************************)
Alphabet == {"a", "=", ";", ","}
Messages == StringsUpTo(Alphabet, MaxLen)
FieldLists == { <<>>,
                << <<"a">> >>,
                << <<"a", "a">> >>,
                << <<"a">>, <<"a", "a">> >>,
                << <<"a", "a">>, <<"a">> >> }
Tokens == { REDACTION, <<>>, <<"a", "=">>, <<";", "a", "=", "a">> }
Separators == { SEPARATOR, <<",">> }

InitFilter ==
    /\ fields \in FieldLists
    /\ redaction \in Tokens
    /\ message \in Messages
    /\ separator \in Separators
    /\ result = <<>>
    /\ result2 = <<>>
    /\ fpc = "start"

\* result = filter_datum(fields, redaction, message, separator)
Redact ==
    /\ fpc = "start"
    /\ result' = filter_datum(fields, redaction, message, separator)
    /\ fpc' = "once"
    /\ UNCHANGED <<fields, redaction, message, separator, result2>>
    /\ UNCHANGED <<rowVars, fmtVars, mainVars>>

\* result2 = filter_datum(fields, redaction, result, separator)
RedactAgain ==
    /\ fpc = "once"
    /\ result2' = filter_datum(fields, redaction, result, separator)
    /\ fpc' = "twice"
    /\ UNCHANGED <<fields, redaction, message, separator, result>>
    /\ UNCHANGED <<rowVars, fmtVars, mainVars>>

NextFilter == Redact \/ RedactAgain

IdleFilter ==
    /\ fields = <<>>
    /\ redaction = <<>>
    /\ message = <<>>
    /\ separator = <<>>
    /\ result = <<>>
    /\ result2 = <<>>
    /\ fpc = "idle"

(***************************************************************************)
(* Database values and their conversion to text.                           *)
(***************************************************************************)
None == [kind |-> "None"]
IntVal(n) == [kind |-> "int", v |-> n]
StrVal(t) == [kind |-> "str", v |-> t]
ListVal(l) == [kind |-> "list", v |-> l]

Digits == <<"0", "1", "2", "3", "4", "5", "6", "7", "8", "9">>

\* decimal digits of a natural number
RECURSIVE NatToStr(_)
NatToStr(n) ==
    IF n < 10 THEN <<Digits[n + 1]>>
    ELSE NatToStr(n \div 10) \o <<Digits[(n % 10) + 1]>>

\* str(value) / f"{value}"
Str(val) ==
    CASE val.kind = "None" -> <<"N", "o", "n", "e">>
      [] val.kind = "int"  -> IF val.v < 0 THEN <<"-">> \o NatToStr(0 - val.v)
                              ELSE NatToStr(val.v)
      [] val.kind = "str"  -> val.v

\* variant: str(value), without the test for None
CastValueNoNoneCheck(val) == StrVal(Str(val))

\* str(value) if value is not None else ""      (main, line 130)
CastValue(val) == IF val # None THEN StrVal(Str(val)) ELSE StrVal(<<>>)

\* tuple(... for value in row)
CastRow(r) == [k \in 1..Len(r) |-> CastValue(r[k])]

(***************************************************************************)
(* format_row: "; ".join(f"{header}={value}" for header, value in zip).    *)
(***************************************************************************)
Min(a, b) == IF a <= b THEN a ELSE b

\* f"{header}={value}"
Pair(header, val) == header \o <<"=">> \o Str(val)

RECURSIVE JoinWith(_, _)
JoinWith(parts, glue) ==
    IF Len(parts) = 0 THEN <<>>
    ELSE IF Len(parts) = 1 THEN parts[1]
         ELSE parts[1] \o glue \o JoinWith(Tail(parts), glue)

format_row(r, hdrs) ==
    JoinWith([k \in 1..Min(Len(hdrs), Len(r)) |-> Pair(hdrs[k], r[k])],
             <<";", " ">>)

(***************************************************************************)
(* Inputs of the row serializer.                                           *)
(***************************************************************************)
ColName == <<"n", "a", "m", "e">>
ColSurname == <<"s", "u", "r", "n", "a", "m", "e">>
ColEmail == <<"e", "m", "a", "i", "l">>
ColPhone == <<"p", "h", "o", "n", "e">>
Columns == {ColName, ColSurname, ColEmail, ColPhone}

Values == { None, IntVal(0), IntVal(42), IntVal(-7),
            StrVal(<<>>), StrVal(<<"J", "o">>) }

\* lists of distinct column names
HeaderLists ==
    {h \in UNION {[1..n -> Columns] : n \in 0..MaxCols} :
        \A i, j \in 1..Len(h) : i # j => h[i] # h[j]}

\* the sublist of hdrs whose elements are in the set S, in the same order
RECURSIVE Sublist(_, _)
Sublist(hdrs, S) ==
    IF hdrs = <<>> THEN <<>>
    ELSE IF hdrs[1] \in S THEN <<hdrs[1]>> \o Sublist(Tail(hdrs), S)
         ELSE Sublist(Tail(hdrs), S)

InitRow ==
    /\ headers \in HeaderLists
    /\ row \in [1..Len(headers) -> Values]
    /\ \E S \in SUBSET Chars(headers) : sensitive = Sublist(headers, S)
    /\ rowMsg = <<>>
    /\ rowOut = <<>>
    /\ rvia = "none"
    /\ rpc = "start"

IdleRow ==
    /\ headers = <<>>
    /\ row = <<>>
    /\ sensitive = <<>>
    /\ rowMsg = <<>>
    /\ rowOut = <<>>
    /\ rvia = "none"
    /\ rpc = "idle"

\* message = format_row(row, headers)
SerializeDirect ==
    /\ rpc = "start"
    /\ rowMsg' = format_row(row, headers)
    /\ rvia' = "direct"
    /\ rpc' = "serialized"
    /\ UNCHANGED <<headers, row, sensitive, rowOut>>
    /\ UNCHANGED <<filterVars, fmtVars, mainVars>>

\* message = format_row(tuple(str(value) if value is not None else ""
\*                            for value in row), headers)
SerializeMain ==
    /\ rpc = "start"
    /\ rowMsg' = format_row(CastRow(row), headers)
    /\ rvia' = "main"
    /\ rpc' = "serialized"
    /\ UNCHANGED <<headers, row, sensitive, rowOut>>
    /\ UNCHANGED <<filterVars, fmtVars, mainVars>>

\* RedactingFormatter(sensitive).format on a record whose msg is rowMsg
RedactRow ==
    /\ rpc = "serialized"
    /\ rowOut' = filter_datum(sensitive, REDACTION, rowMsg, SEPARATOR)
    /\ rpc' = "redacted"
    /\ UNCHANGED <<headers, row, sensitive, rowMsg, rvia>>
    /\ UNCHANGED <<filterVars, fmtVars, mainVars>>

NextRow == SerializeDirect \/ SerializeMain \/ RedactRow

(***************************************************************************)
(* RedactingFormatter: __init__ and format, the latter run by two threads  *)
(* on two distinct records.                                                *)
(***************************************************************************)
Threads == {1, 2}

\* the list object the caller passes to RedactingFormatter(fields)
CallerList == "L1"

LoggerName == "user_data"
LevelName == "INFO"

\* bodies of the records: two pairs joined by the separator
BodyValues == { StrVal(<<"J", "o">>), IntVal(42) }
Bodies ==
    { JoinWith(<<Pair(ColName, v), Pair(ColEmail, IntVal(0))>>, SEPARATOR) :
        v \in BodyValues }

InitialFieldLists == { <<ColName>>, <<ColName, ColEmail>> }

\* the names the caller may append to its list
Appendable == {ColEmail, ColPhone}

InitFmt ==
    /\ heap \in [{CallerList} -> InitialFieldLists]
    /\ selfFields = "unset"
    /\ ctorFields = <<>>
    /\ orig \in [Threads -> Bodies]
    /\ recs = [t \in Threads |->
                 [msg |-> orig[t], name |-> LoggerName, levelname |-> LevelName]]
    /\ argMsg = [t \in Threads |-> <<>>]
    /\ usedFields = [t \in Threads |-> <<>>]
    /\ ret = [t \in Threads |-> <<>>]
    /\ out = [t \in Threads |-> <<>>]
    /\ pc = [t \in Threads |-> "idle"]

IdleFmt ==
    /\ heap = [l \in {CallerList} |-> <<>>]
    /\ selfFields = "unset"
    /\ ctorFields = <<>>
    /\ orig = [t \in Threads |-> <<>>]
    /\ recs = [t \in Threads |->
                 [msg |-> <<>>, name |-> LoggerName, levelname |-> LevelName]]
    /\ argMsg = [t \in Threads |-> <<>>]
    /\ usedFields = [t \in Threads |-> <<>>]
    /\ ret = [t \in Threads |-> <<>>]
    /\ out = [t \in Threads |-> <<>>]
    /\ pc = [t \in Threads |-> "off"]

\* __init__: self.fields = fields binds the caller's list object itself
Construct ==
    /\ selfFields = "unset"
    /\ \A t \in Threads : pc[t] = "idle"
    /\ selfFields' = CallerList
    /\ ctorFields' = heap[CallerList]
    /\ UNCHANGED <<heap, recs, orig, argMsg, usedFields, ret, out, pc>>
    /\ UNCHANGED <<filterVars, rowVars, mainVars>>

\* the caller goes on using its list: fields.append(c)
CallerAppend(c) ==
    /\ \A t \in Threads : pc[t] # "off"
    /\ Len(heap[CallerList]) < MaxFields
    /\ ~InList(c, heap[CallerList])
    /\ heap' = [heap EXCEPT ![CallerList] = Append(@, c)]
    /\ UNCHANGED <<selfFields, ctorFields, recs, orig, argMsg, usedFields,
                   ret, out, pc>>
    /\ UNCHANGED <<filterVars, rowVars, mainVars>>

\* the caller goes on using its list: fields.pop()
CallerPop ==
    /\ \A t \in Threads : pc[t] # "off"
    /\ Len(heap[CallerList]) >= 1
    /\ heap' = [heap EXCEPT ![CallerList] = SubSeq(@, 1, Len(@) - 1)]
    /\ UNCHANGED <<selfFields, ctorFields, recs, orig, argMsg, usedFields,
                   ret, out, pc>>
    /\ UNCHANGED <<filterVars, rowVars, mainVars>>

\* a thread calls formatter.format(record) on its own record
FormatEnter(t) ==
    /\ selfFields # "unset"
    /\ pc[t] = "idle"
    /\ pc' = [pc EXCEPT ![t] = "load"]
    /\ UNCHANGED <<heap, selfFields, ctorFields, recs, orig, argMsg,
                   usedFields, ret, out>>
    /\ UNCHANGED <<filterVars, rowVars, mainVars>>

\* the arguments of the call are evaluated: record.msg is read
FormatLoad(t) ==
    /\ pc[t] = "load"
    /\ argMsg' = [argMsg EXCEPT ![t] = recs[t].msg]
    /\ pc' = [pc EXCEPT ![t] = "call"]
    /\ UNCHANGED <<heap, selfFields, ctorFields, recs, orig, usedFields,
                   ret, out>>
    /\ UNCHANGED <<filterVars, rowVars, mainVars>>

\* filter_datum(self.fields, self.REDACTION, record.msg, self.SEPARATOR):
\* the contents of the list behind self.fields are read by the join
FormatCall(t) ==
    /\ pc[t] = "call"
    /\ usedFields' = [usedFields EXCEPT ![t] = heap[selfFields]]
    /\ ret' = [ret EXCEPT ![t] =
                 filter_datum(heap[selfFields], REDACTION, argMsg[t], SEPARATOR)]
    /\ pc' = [pc EXCEPT ![t] = "store"]
    /\ UNCHANGED <<heap, selfFields, ctorFields, recs, orig, argMsg, out>>
    /\ UNCHANGED <<filterVars, rowVars, mainVars>>

\* variant: the value returned is kept where every record sees it
FormatStoreLeaky(t) ==
    /\ pc[t] = "store"
    /\ recs' = [r \in Threads |-> [recs[r] EXCEPT !.msg = ret[t]]]
    /\ pc' = [pc EXCEPT ![t] = "render"]
    /\ UNCHANGED <<heap, selfFields, ctorFields, orig, argMsg, usedFields,
                   ret, out>>
    /\ UNCHANGED <<filterVars, rowVars, mainVars>>

\* record.msg = <the value returned>
FormatStore(t) ==
    /\ pc[t] = "store"
    /\ recs' = [recs EXCEPT ![t].msg = ret[t]]
    /\ pc' = [pc EXCEPT ![t] = "render"]
    /\ UNCHANGED <<heap, selfFields, ctorFields, orig, argMsg, usedFields,
                   ret, out>>
    /\ UNCHANGED <<filterVars, rowVars, mainVars>>

\* FORMAT = "[HOLBERTON] %(name)s %(levelname)s %(asctime)-15s: %(message)s"
\* rendered from the record; the timestamp is left out
Layout(rec) == [name |-> rec.name, levelname |-> rec.levelname, body |-> rec.msg]

\* return super(RedactingFormatter, self).format(record)
FormatRender(t) ==
    /\ pc[t] = "render"
    /\ out' = [out EXCEPT ![t] = Layout(recs[t])]
    /\ pc' = [pc EXCEPT ![t] = "done"]
    /\ UNCHANGED <<heap, selfFields, ctorFields, recs, orig, argMsg,
                   usedFields, ret>>
    /\ UNCHANGED <<filterVars, rowVars, mainVars>>

NextFmt ==
    \/ Construct
    \/ \E c \in Appendable : CallerAppend(c)
    \/ CallerPop
    \/ \E t \in Threads :
          \/ FormatEnter(t)
          \/ FormatLoad(t)
          \/ FormatCall(t)
          \/ FormatStore(t)
          \/ FormatRender(t)

(***************************************************************************)
(* get_logger, and main: the emission loop.                                *)
(***************************************************************************)
ColSsn == <<"s", "s", "n">>
ColPassword == <<"p", "a", "s", "s", "w", "o", "r", "d">>

\* PII_FIELDS = ("name", "email", "phone", "ssn", "password")
PII_FIELDS == <<ColName, ColEmail, ColPhone, ColSsn, ColPassword>>

NOTSET == 0
INFO == 20

\* cursor.description of the users table; None when there is no result set
Descriptions ==
    { None, ListVal(<<ColName, ColPhone>>), ListVal(<<ColSurname, ColName>>) }

TableValues == { None, IntVal(42), StrVal(<<"J", "o">>) }

\* the tables that have the columns of description d
Tables(d) ==
    LET n == IF d = None THEN 0 ELSE Len(d.v) IN
    UNION {[1..m -> [1..n -> TableValues]] : m \in 0..MaxRows}

InitMain ==
    /\ level = NOTSET
    /\ propagate = TRUE
    /\ handlers = <<>>
    /\ calls = 0
    /\ mpc = "start"
    /\ dbOpen = FALSE
    /\ cursorOpen = FALSE
    /\ opened = FALSE
    /\ description \in Descriptions
    /\ table \in Tables(description)
    /\ mheaders = <<>>
    /\ rows = <<>>
    /\ idx = 0
    /\ handled = 0
    /\ stream = <<>>

IdleMain ==
    /\ level = NOTSET
    /\ propagate = TRUE
    /\ handlers = <<>>
    /\ calls = 0
    /\ mpc = "off"
    /\ dbOpen = FALSE
    /\ cursorOpen = FALSE
    /\ opened = FALSE
    /\ description = None
    /\ table = <<>>
    /\ mheaders = <<>>
    /\ rows = <<>>
    /\ idx = 0
    /\ handled = 0
    /\ stream = <<>>

\* get_logger(): setLevel(INFO), propagate = False, and a new StreamHandler
\* with a new RedactingFormatter(list(PII_FIELDS)) added to the logger
get_logger ==
    /\ calls < MaxCalls
    /\ level' = INFO
    /\ propagate' = FALSE
    /\ handlers' = Append(handlers, PII_FIELDS)
    /\ calls' = calls + 1

\* get_logger() called by other code of the process
GetLoggerElsewhere ==
    /\ mpc # "off"
    /\ get_logger
    /\ UNCHANGED <<mpc, dbOpen, cursorOpen, opened, description, table,
                   mheaders, rows, idx, handled, stream>>
    /\ UNCHANGED <<filterVars, rowVars, fmtVars>>

\* logger = get_logger()
MainGetLogger ==
    /\ mpc = "start"
    /\ get_logger
    /\ mpc' = "get_db"
    /\ UNCHANGED <<dbOpen, cursorOpen, opened, description, table, mheaders,
                   rows, idx, handled, stream>>
    /\ UNCHANGED <<filterVars, rowVars, fmtVars>>

\* db = get_db(): the connection is made, or connect raises
MainGetDb ==
    /\ mpc = "get_db"
    /\ \/ dbOpen' = TRUE /\ mpc' = "cursor"
       \/ dbOpen' = FALSE /\ mpc' = "raised"
    /\ UNCHANGED <<level, propagate, handlers, calls, cursorOpen, opened,
                   description, table, mheaders, rows, idx, handled, stream>>
    /\ UNCHANGED <<filterVars, rowVars, fmtVars>>

\* cursor = db.cursor()
MainCursor ==
    /\ mpc = "cursor"
    /\ \/ cursorOpen' = TRUE /\ opened' = TRUE /\ mpc' = "execute"
       \/ cursorOpen' = FALSE /\ opened' = FALSE /\ mpc' = "raised"
    /\ UNCHANGED <<level, propagate, handlers, calls, dbOpen, description,
                   table, mheaders, rows, idx, handled, stream>>
    /\ UNCHANGED <<filterVars, rowVars, fmtVars>>

\* cursor.execute("SELECT * FROM users"), then
\* headers = [i[0] for i in cursor.description] if cursor.description else []
MainExecute ==
    /\ mpc = "execute"
    /\ \/ /\ mheaders' = IF description = None THEN <<>> ELSE description.v
          /\ mpc' = "fetch"
       \/ /\ mheaders' = mheaders
          /\ mpc' = "raised"
    /\ UNCHANGED <<level, propagate, handlers, calls, dbOpen, cursorOpen,
                   opened, description, table, rows, idx, handled, stream>>
    /\ UNCHANGED <<filterVars, rowVars, fmtVars>>

\* rows = cursor.fetchall()
MainFetch ==
    /\ mpc = "fetch"
    /\ \/ rows' = table /\ mpc' = "loop"
       \/ rows' = rows /\ mpc' = "raised"
    /\ UNCHANGED <<level, propagate, handlers, calls, dbOpen, cursorOpen,
                   opened, description, table, mheaders, idx, handled, stream>>
    /\ UNCHANGED <<filterVars, rowVars, fmtVars>>

\* Logger.handle -> callHandlers: every handler in turn formats the record,
\* which rewrites record.msg, and writes the line to the stream
RECURSIVE Emitted(_, _)
Emitted(hs, body) ==
    IF hs = <<>> THEN <<>>
    ELSE LET b == filter_datum(hs[1], REDACTION, body, SEPARATOR)
         IN  <<b>> \o Emitted(Tail(hs), b)

\* one turn of `for row in rows`: the row is cast and serialized, the
\* LogRecord built and handled; an error raised on the way ends main
MainRow ==
    /\ mpc = "loop"
    /\ idx < Len(rows)
    /\ \/ /\ stream' = stream \o
                  Emitted(handlers, format_row(CastRow(rows[idx + 1]), mheaders))
          /\ handled' = handled + 1
          /\ idx' = idx + 1
          /\ mpc' = "loop"
       \/ /\ UNCHANGED <<stream, handled, idx>>
          /\ mpc' = "raised"
    /\ UNCHANGED <<level, propagate, handlers, calls, dbOpen, cursorOpen,
                   opened, description, table, mheaders, rows>>
    /\ UNCHANGED <<filterVars, rowVars, fmtVars>>

\* cursor.close()
MainCloseCursor ==
    /\ mpc = "loop"
    /\ idx = Len(rows)
    /\ cursorOpen' = FALSE
    /\ mpc' = "close_db"
    /\ UNCHANGED <<level, propagate, handlers, calls, dbOpen, opened,
                   description, table, mheaders, rows, idx, handled, stream>>
    /\ UNCHANGED <<filterVars, rowVars, fmtVars>>

\* db.close()
MainCloseDb ==
    /\ mpc = "close_db"
    /\ dbOpen' = FALSE
    /\ mpc' = "done"
    /\ UNCHANGED <<level, propagate, handlers, calls, cursorOpen, opened,
                   description, table, mheaders, rows, idx, handled, stream>>
    /\ UNCHANGED <<filterVars, rowVars, fmtVars>>

NextMain ==
    \/ GetLoggerElsewhere
    \/ MainGetLogger
    \/ MainGetDb
    \/ MainCursor
    \/ MainExecute
    \/ MainFetch
    \/ MainRow
    \/ MainCloseCursor
    \/ MainCloseDb

(***************************************************************************)
(* Specifications.                                                         *)
(***************************************************************************)
InitSpecFilter == InitFilter /\ IdleRow /\ IdleFmt /\ IdleMain
SpecFilter == InitSpecFilter /\ [][NextFilter]_vars

InitSpecRow == InitRow /\ IdleFilter /\ IdleFmt /\ IdleMain
SpecRow == InitSpecRow /\ [][NextRow]_vars

InitSpecFmt == InitFmt /\ IdleFilter /\ IdleRow /\ IdleMain
SpecFmt == InitSpecFmt /\ [][NextFmt]_vars

InitSpecMain == InitMain /\ IdleFilter /\ IdleRow /\ IdleFmt
SpecMain == InitSpecMain /\ [][NextMain]_vars

(***************************************************************************)
(* The key=value grammar of a log body, used to state the claims.          *)
(***************************************************************************)
\* the fields of s: s cut at every character of the separator
RECURSIVE SplitFrom(_, _, _, _)
SplitFrom(s, sep, i, cur) ==
    IF i > Len(s) THEN <<cur>>
    ELSE IF s[i] \in Chars(sep)
         THEN <<cur>> \o SplitFrom(s, sep, i + 1, <<>>)
         ELSE SplitFrom(s, sep, i + 1, Append(cur, s[i]))

Split(s, sep) == SplitFrom(s, sep, 1, <<>>)

\* position of the first "=" of a segment, 0 when there is none
EqPos(seg) ==
    IF \E k \in 1..Len(seg) : seg[k] = "="
    THEN CHOOSE k \in 1..Len(seg) : seg[k] = "=" /\ \A j \in 1..(k - 1) : seg[j] # "="
    ELSE 0

IsPair(seg) == EqPos(seg) >= 2
KeyOf(seg) == SubSeq(seg, 1, EqPos(seg) - 1)
ValueOf(seg) == SubSeq(seg, EqPos(seg) + 1, Len(seg))

\* zero or more key=value pairs, the separator after the last one optional
WellFormed(msg, sep) ==
    LET segs == Split(msg, sep) IN
    \A n \in 1..Len(segs) : IsPair(segs[n]) \/ (n = Len(segs) /\ segs[n] = <<>>)

Keys(msg, sep) ==
    LET segs == Split(msg, sep) IN
    {KeyOf(segs[n]) : n \in {m \in 1..Len(segs) : IsPair(segs[m])}}

\* the redaction anchored at the start of a field: a segment is rewritten
\* only when its whole key is a sensitive name and its value is not empty
AnchoredSegment(flds, red, seg) ==
    IF IsPair(seg) /\ InList(KeyOf(seg), flds) /\ Len(ValueOf(seg)) >= 1
    THEN KeyOf(seg) \o <<"=">> \o red
    ELSE seg

AnchoredRedact(flds, red, msg, sep) ==
    LET segs == Split(msg, sep) IN
    JoinWith([n \in 1..Len(segs) |-> AnchoredSegment(flds, red, segs[n])], sep)

(***************************************************************************)
(* Claims about filter_datum, checked under SpecFilter.                    *)
(***************************************************************************)
\* C1: with an empty field list filter_datum returns the message unchanged.
EmptyFieldsNoOp ==
    (fpc # "start" /\ fields = <<>>) => result = message

\* C2 (as stated): redacting an already redacted message changes nothing,
\* for every field list, token, message and separator.
Idempotent ==
    fpc = "twice" => result2 = result

\* C2 (amended): redacting an already redacted message changes nothing when
\* the token contains no separator character.
IdempotentSepFreeToken ==
    (fpc = "twice" /\ Chars(redaction) \cap Chars(separator) = {})
        => result2 = result

\* the second pass ran over a message that the first pass did redact
IdempotentWitness ==
    /\ fpc = "twice"
    /\ Chars(redaction) \cap Chars(separator) = {}
    /\ redaction # <<>>
    /\ result # message
    /\ result2 = result

\* C3: a message of key=value pairs none of whose keys is in fields is
\* returned unchanged.  Stated for a field list that is not empty; the
\* empty list is the case of C1.
NonSensitivePassthrough ==
    (/\ fpc # "start"
     /\ fields # <<>>
     /\ WellFormed(message, separator)
     /\ \A k \in Keys(message, separator) : ~InList(k, fields))
        => result = message

\* C4: exactly the pairs whose whole key is in fields are redacted, a
\* name= marker counting only at the start of a field; all other text is
\* kept verbatim and in order.  Stated for a field list that is not empty;
\* the empty list is the case of C1.
AnchoredExactRedaction ==
    (fpc # "start" /\ fields # <<>>)
        => result = AnchoredRedact(fields, redaction, message, separator)

(***************************************************************************)
(* Claims about format_row, checked under SpecRow.                         *)
(***************************************************************************)
\* a segment without the blank that "; " leaves in front of it
LStrip(seg) == IF Len(seg) >= 1 /\ seg[1] = " " THEN Tail(seg) ELSE seg

\* the key=value pairs of a serialized row
PairsOf(msg) ==
    IF msg = <<>> THEN <<>>
    ELSE LET segs == Split(msg, SEPARATOR) IN
         [k \in 1..Len(segs) |-> LStrip(segs[k])]

\* every column whose value is None is rendered as header= and nothing more
NoneRendersEmpty ==
    /\ Len(PairsOf(rowMsg)) = Len(headers)
    /\ \A k \in 1..Len(headers) :
          row[k] = None => PairsOf(rowMsg)[k] = headers[k] \o <<"=">>

\* C5 (as stated): format_row renders a None value as the empty string,
\* for every row and header list.
FormatRowNoneIsEmpty ==
    rpc \in {"serialized", "redacted"} => NoneRendersEmpty

\* C5 (amended): the serialization done by main, which casts None to ""
\* before calling format_row, renders a None value as the empty string.
MainNoneIsEmpty ==
    (rpc \in {"serialized", "redacted"} /\ rvia = "main") => NoneRendersEmpty

\* main serialized a row that has a None column
MainNoneWitness ==
    /\ rpc = "serialized"
    /\ rvia = "main"
    /\ \E k \in 1..Len(headers) : row[k] = None
    /\ \E k \in 1..Len(headers) : row[k] # None

\* C6: the serialized and redacted row has exactly n pairs, the keys
\* c1..cn in order, the value replaced by the token for every column of
\* the subset and left as serialized for every other column.
RoundTripShape ==
    rpc = "redacted" =>
        /\ Len(PairsOf(rowOut)) = Len(headers)
        /\ \A k \in 1..Len(headers) :
              LET p == PairsOf(rowOut)[k] IN
              /\ IsPair(p)
              /\ KeyOf(p) = headers[k]
              /\ ValueOf(p) = IF InList(headers[k], sensitive)
                              THEN REDACTION
                              ELSE ValueOf(PairsOf(rowMsg)[k])

(***************************************************************************)
(* Claims about RedactingFormatter, checked under SpecFmt.                 *)
(***************************************************************************)
\* C7: after __init__ the field set used by format is the one given at
\* construction, whatever the caller does with the list it passed.
ConfigurationFixed ==
    /\ selfFields # "unset" => heap[selfFields] = ctorFields
    /\ \A t \in Threads :
          pc[t] \in {"store", "render", "done"} => usedFields[t] = ctorFields

\* the body a call has to leave in its record
OwnRedaction(t) == filter_datum(usedFields[t], REDACTION, orig[t], SEPARATOR)

\* C8: under every interleaving of two format calls on two distinct
\* records, a record is changed by its own call only, its final body is the
\* redaction of its own original body, the text a call returns carries its
\* own record's redacted body, and name and level are never changed.
NoLeakBetweenRecords ==
    \A t \in Threads :
        /\ pc[t] \in {"idle", "load", "call", "store"} => recs[t].msg = orig[t]
        /\ pc[t] \in {"render", "done"} => recs[t].msg = OwnRedaction(t)
        /\ pc[t] = "done" =>
              out[t] = [name |-> LoggerName, levelname |-> LevelName,
                        body |-> OwnRedaction(t)]
        /\ recs[t].name = LoggerName
        /\ recs[t].levelname = LevelName

\* the two calls overlap on records with different bodies: the second has
\* stored its redacted body while the first, its result computed, has not
NoLeakWitness ==
    /\ pc[1] = "store"
    /\ pc[2] = "render"
    /\ orig[1] # orig[2]
    /\ ret[1] # ret[2]
    /\ recs[2].msg # orig[2]
    /\ recs[1].msg = orig[1]

(***************************************************************************)
(* Claims about main and get_logger, checked under SpecMain.               *)
(***************************************************************************)
\* C9: no execution of main in which the connection and the cursor were
\* opened ends, normally or by an error, with either of them still open.
ClosedOnEveryExit ==
    (mpc \in {"done", "raised"} /\ opened) => (~cursorOpen /\ ~dbOpen)

\* C10: after k >= 1 get_logger() calls the logger has level INFO,
\* propagate False and exactly one handler, whose formatter redacts
\* PII_FIELDS, so every handled record is written exactly once, redacted.
GetLoggerIdempotent ==
    calls >= 1 =>
        /\ level = INFO
        /\ propagate = FALSE
        /\ Len(handlers) = 1
        /\ handlers[1] = PII_FIELDS
        /\ (mpc \in {"loop", "close_db", "done"} => Len(stream) = handled)

====
